---- MODULE Spec2Model ----
(***************************************************************************)
(* Write path of Xapian::WritableDatabase (xapian-core/include/xapian/     *)
(* database.h): the buffer of pending modifications, flush(), and the      *)
(* transaction protocol begin_transaction / commit_transaction /           *)
(* cancel_transaction, over one writable shard.                            *)
(*                                                                         *)
(* The header declares the methods and states their contracts; the method  *)
(* bodies are not part of the header.  Each action below is the contract   *)
(* of one method, with every outcome the contract leaves open modelled as  *)
(* a nondeterministic choice.                                              *)
(***************************************************************************)
EXTENDS Integers, Sequences, FiniteSets, TLC

\* ------------------------------------------------------------------ bounds
\* Highest document id the model allocates or replaces.
MaxDocId == 1
\* Most records the buffer holds (reached only inside a transaction).
MaxBuffer == 2
\* Number of buffered modifications that triggers the automatic flush
\* (XAPIAN_FLUSH_THRESHOLD; 10000 by default).
FlushThreshold == 2

\* Most shards of a logical database, and most document ids used in a shard.
MaxShards == 2
MaxLocal == 2

\* ------------------------------------------------------------------ values

\* A document is its data and the term that indexes it; the two are written
\* to different tables of the shard.
Documents == {[data |-> "a", term |-> "X"], [data |-> "b", term |-> "Y"]}

\* The absence of a document at a document id.
NoDoc == [data |-> "none", term |-> "none"]

\* Modification records held in the buffer until flushed.
AddRecord(did, doc) == [op |-> "Add", did |-> did, doc |-> doc]
ReplaceRecord(did, doc) == [op |-> "Replace", did |-> did, doc |-> doc]
DeleteRecord(did) == [op |-> "Delete", did |-> did, doc |-> NoDoc]

\* Transaction states.
TRANSACTION_NONE == "Idle"
TRANSACTION_FLUSHED == "ActiveFlushed"
TRANSACTION_UNFLUSHED == "ActiveUnflushed"

\* Results of a call.
Ok == "ok"
InvalidOperationError == "InvalidOperationError"
DatabaseError == "DatabaseError"
DatabaseLockError == "DatabaseLockError"
InvalidArgumentError == "InvalidArgumentError"

\* The metadata keys and values written; the empty value is what a key
\* without metadata reads as.
MetadataKeys == {"version"}
MetadataValues == {"", "v1"}
MetadataRecord(key, value) ==
    [op |-> "Metadata", did |-> 0, doc |-> NoDoc, key |-> key, value |-> value]

VARIABLES
    durable,     \* the committed documents: what a fresh open or reopen sees
    metadata,    \* the committed metadata, with the committed documents
    buffer,      \* the pending modification records, in call order
    txn,         \* the transaction state
    txn_start,   \* number of records that were pending when the transaction began
    lastdocid,   \* the document id allocator: highest id used so far
    open,        \* the writable handle is open
    writers,     \* number of writable handles open on the shard
    reader,      \* the documents a read-only handle sees: its snapshot
    shards,      \* the shards of a read-only logical database, in order
    postlist,    \* the merged posting iterator over the shards
    result,      \* the shard and local id the last get_document() resolved to
    call,        \* the last method called
    err,         \* what the last call reported
    pre,         \* the state as it was before the last call
    arg,         \* the arguments of the last call
    ret          \* the document id the last call returned (0: none)

vars == <<durable, metadata, buffer, txn, txn_start, lastdocid, open, writers,
          reader, shards, postlist, result,
          call, err, pre, arg, ret>>

Snapshot == [durable |-> durable, metadata |-> metadata, buffer |-> buffer,
             txn |-> txn, txn_start |-> txn_start,
             lastdocid |-> lastdocid, open |-> open, writers |-> writers,
             reader |-> reader]

\* The document ids of the shard: the id space of the stored documents.
DocIds == DOMAIN durable

\* The highest document id there is.
MaxId == CHOOSE d \in DocIds : \A e \in DocIds : e <= d

\* The arguments of a call: a document id, a document, a term, as far as the
\* method takes them.
NoArg == [did |-> 0, doc |-> NoDoc, term |-> "none"]
DidArg(did) == [NoArg EXCEPT !.did = did]
DocArg(doc) == [NoArg EXCEPT !.doc = doc]
DidDocArg(did, doc) == [NoArg EXCEPT !.did = did, !.doc = doc]
TermArg(term) == [NoArg EXCEPT !.term = term]
KeyValueArg(key, value) ==
    [did |-> 0, doc |-> [data |-> value, term |-> "none"], term |-> key]
TermDocArg(term, doc) == [NoArg EXCEPT !.term = term, !.doc = doc]

\* ------------------------------------------------------------------ applying records
\* A slip: the document's data is written but its term is not (the write
\* stops between the two tables).
ApplyRecordPartial(store, rec) ==
    IF rec.op = "Delete"
    THEN [store EXCEPT ![rec.did] = NoDoc]
    ELSE [store EXCEPT ![rec.did] = [data |-> rec.doc.data, term |-> store[rec.did].term]]

\* One record applied to the stored documents: the whole document is written
\* (or removed).  A metadata record is about no document.
ApplyRecord(store, rec) ==
    IF rec.op = "Metadata" THEN store
    ELSE IF rec.op = "Delete"
    THEN [store EXCEPT ![rec.did] = NoDoc]
    ELSE [store EXCEPT ![rec.did] = rec.doc]

\* A slip: only the first record of the batch is written.
ApplyFirstOnly(store, recs) ==
    IF recs = <<>> THEN store ELSE ApplyRecord(store, Head(recs))

RECURSIVE ApplyAll(_, _)
ApplyAll(store, recs) ==
    IF recs = <<>> THEN store
    ELSE ApplyAll(ApplyRecord(store, Head(recs)), Tail(recs))

\* The records of recs at the positions in S, in order.
RECURSIVE Select(_, _, _)
Select(recs, S, i) ==
    IF i > Len(recs) THEN <<>>
    ELSE IF i \in S THEN <<recs[i]>> \o Select(recs, S, i + 1)
    ELSE Select(recs, S, i + 1)

\* The metadata once the records recs have been written: a metadata record
\* replaces the value of its key.
RECURSIVE ApplyMetadata(_, _)
ApplyMetadata(meta, recs) ==
    IF recs = <<>> THEN meta
    ELSE LET rec == Head(recs) IN
         ApplyMetadata(IF rec.op = "Metadata"
                       THEN [meta EXCEPT ![rec.key] = rec.value]
                       ELSE meta,
                       Tail(recs))

\* ------------------------------------------------------------------ the flush engine
\* What a failed flush may leave in the buffer: its contents are not
\* specified (all discarded, all still pending, or the records not applied).
FailedFlushBuffers(recs, S) ==
    {<<>>, recs, Select(recs, (1..Len(recs)) \ S, 1)}

\* flush of the records recs.  On success every record has been written and
\* the buffer is empty.  On failure each record has been fully performed or
\* not performed at all: some subset S of the batch has been written.
FlushEngine(recs) ==
    \/ /\ durable' = ApplyAll(durable, recs)
       /\ metadata' = ApplyMetadata(metadata, recs)
       /\ buffer' = <<>>
       /\ err' = Ok
    \/ \E S \in SUBSET (1..Len(recs)) :
          /\ durable' = ApplyAll(durable, Select(recs, S, 1))
          /\ metadata' = ApplyMetadata(metadata, Select(recs, S, 1))
          /\ buffer' \in FailedFlushBuffers(recs, S)
          /\ err' = DatabaseError

\* A slip: the automatic flush comes one modification late.
BufferedAllLate(recs) ==
    LET newbuf == buffer \o recs IN
    IF recs # <<>> /\ txn = TRANSACTION_NONE /\ Len(newbuf) > FlushThreshold
    THEN FlushEngine(newbuf)
    ELSE /\ buffer' = newbuf
         /\ durable' = durable
         /\ metadata' = metadata
         /\ err' = Ok

\* A slip: the threshold flushes inside a transaction as well.
BufferedAllInTransaction(recs) ==
    LET newbuf == buffer \o recs IN
    IF recs # <<>> /\ Len(newbuf) >= FlushThreshold
    THEN FlushEngine(newbuf)
    ELSE /\ buffer' = newbuf
         /\ durable' = durable
         /\ metadata' = metadata
         /\ err' = Ok

\* A slip: the new records are put before the pending ones.
BufferedAllPrepends(recs) ==
    LET newbuf == recs \o buffer IN
    IF recs # <<>> /\ txn = TRANSACTION_NONE /\ Len(newbuf) >= FlushThreshold
    THEN FlushEngine(newbuf)
    ELSE /\ buffer' = newbuf
         /\ durable' = durable
         /\ metadata' = metadata
         /\ err' = Ok

\* The modification records of one call are buffered; with no transaction
\* active, reaching the flush threshold flushes automatically.  Inside a
\* transaction nothing is committed before commit_transaction().
BufferedAll(recs) ==
    LET newbuf == buffer \o recs IN
    IF recs # <<>> /\ txn = TRANSACTION_NONE /\ Len(newbuf) >= FlushThreshold
    THEN FlushEngine(newbuf)
    ELSE /\ buffer' = newbuf
         /\ durable' = durable
         /\ metadata' = metadata
         /\ err' = Ok

Buffered(rec) == BufferedAll(<<rec>>)

\* The buffer has room for one more record.
HasRoom == Len(buffer) < MaxBuffer

\* The buffer has room for the records recs.
RoomFor(recs) == Len(buffer) + Len(recs) <= MaxBuffer

\* ------------------------------------------------------------------ terms
Terms == {doc.term : doc \in Documents}

\* The documents as the writer sees them: the stored documents with the
\* pending modifications in effect.
View == ApplyAll(durable, buffer)

\* The ids of the documents of store indexed by term.
IndexedBy(store, term) == {d \in DOMAIN store : store[d].term = term}

Lowest(S) == CHOOSE d \in S : \A e \in S : d <= e
\* Delete records for the document ids of S, in increasing order.
RECURSIVE DeleteRecords(_)
DeleteRecords(S) ==
    IF S = {} THEN <<>>
    ELSE <<DeleteRecord(Lowest(S))>> \o DeleteRecords(S \ {Lowest(S)})

\* ------------------------------------------------------------------ operations
\* A transaction is in progress.
transaction_active == txn # TRANSACTION_NONE

\* A slip: flush() does not look at the transaction state.
FlushNeverRejected == FALSE

\* flush() is not valid within a transaction.
FlushRejected == transaction_active

flush ==
    /\ open
    /\ call' = "flush"
    /\ pre' = Snapshot
    /\ arg' = NoArg
    /\ ret' = 0
    /\ IF FlushRejected
       THEN /\ err' = InvalidOperationError
            /\ UNCHANGED <<durable, metadata, buffer>>
       ELSE FlushEngine(buffer)
    /\ UNCHANGED <<txn, txn_start, lastdocid, open, writers, reader, shards, postlist, result>>

\* A slip: a transaction may be begun inside an unflushed transaction.
BeginRejectedOnlyFlushed == txn = TRANSACTION_FLUSHED

\* begin_transaction() is invalid when a transaction is already in progress.
BeginRejected == transaction_active

\* A slip: the flush before a flushed transaction is left out.
BeginFlushedNoFlush ==
    /\ txn' = TRANSACTION_FLUSHED
    /\ txn_start' = 0
    /\ err' = Ok
    /\ UNCHANGED <<durable, metadata, buffer>>

\* A flushed transaction implicitly calls flush before it starts; if that
\* flush fails no transaction is started.
BeginFlushed ==
    /\ FlushEngine(buffer)
    /\ txn' = IF err' = Ok THEN TRANSACTION_FLUSHED ELSE TRANSACTION_NONE
    /\ txn_start' = 0

begin_transaction(flushed) ==
    /\ open
    /\ call' = "begin_transaction"
    /\ pre' = Snapshot
    /\ arg' = NoArg
    /\ ret' = 0
    /\ IF BeginRejected
       THEN /\ err' = InvalidOperationError
            /\ UNCHANGED <<durable, metadata, buffer, txn, txn_start>>
       ELSE IF flushed
       THEN BeginFlushed
       ELSE /\ txn' = TRANSACTION_UNFLUSHED
            /\ txn_start' = Len(buffer)
            /\ err' = Ok
            /\ UNCHANGED <<durable, metadata, buffer>>
    /\ UNCHANGED <<lastdocid, open, writers, reader, shards, postlist, result>>

\* A slip: commit fails the way flush() fails, record by record.
CommitFlushedPerRecord == FlushEngine(buffer)

\* A slip: the flush after a flushed transaction is left out.
CommitFlushedNoFlush ==
    /\ err' \in {Ok, DatabaseError}
    /\ UNCHANGED <<durable, metadata, buffer>>

\* commit of a flushed transaction: the transaction's modifications are
\* committed together, or on error none of them is applied.
CommitFlushed ==
    \/ /\ durable' = ApplyAll(durable, buffer)
       /\ metadata' = ApplyMetadata(metadata, buffer)
       /\ buffer' = <<>>
       /\ err' = Ok
    \/ /\ durable' = durable
       /\ metadata' = metadata
       /\ buffer' = <<>>
       /\ err' = DatabaseError

\* A slip: the commit of an unflushed transaction flushes.
CommitUnflushedFlushes == FlushEngine(buffer)

\* commit of an unflushed transaction: no flush, the records stay in the
\* ordinary buffer with those pending before the transaction.
CommitUnflushed ==
    /\ err' = Ok
    /\ UNCHANGED <<durable, metadata, buffer>>

\* A slip: the transaction state is cleared only when the flush succeeded.
CommitEndsOnSuccess == txn' = IF err' = Ok THEN TRANSACTION_NONE ELSE txn

\* In all cases the transaction is no longer in progress after
\* commit_transaction().
CommitEnds == txn' = TRANSACTION_NONE

\* A slip: commit and cancel do not check that a transaction is in progress.
EndNeverRejected == FALSE

\* commit_transaction() and cancel_transaction() are invalid when no
\* transaction is in progress.
EndRejected == ~transaction_active

commit_transaction ==
    /\ open
    /\ call' = "commit_transaction"
    /\ pre' = Snapshot
    /\ arg' = NoArg
    /\ ret' = 0
    /\ IF EndRejected
       THEN /\ err' = InvalidOperationError
            /\ UNCHANGED <<durable, metadata, buffer, txn, txn_start>>
       ELSE /\ IF txn = TRANSACTION_FLUSHED
               THEN CommitFlushed
               ELSE CommitUnflushed
            /\ CommitEnds
            /\ txn_start' = IF txn' = TRANSACTION_NONE THEN 0 ELSE txn_start
    /\ UNCHANGED <<lastdocid, open, writers, reader, shards, postlist, result>>

\* A slip: cancel discards only the records of the transaction.
CancelledKeepsPending(recs) == SubSeq(recs, 1, txn_start)

\* What cancel leaves in the buffer: every pending record is discarded, for
\* an unflushed transaction those pending before it began as well.
Cancelled(recs) == <<>>

\* A slip: cancel winds the counter back to the highest id stored.
AllocatorAfterCancelRewound ==
    LET used == {d \in DOMAIN durable : durable[d] # NoDoc} IN
    IF used = {} THEN 0 ELSE CHOOSE d \in used : \A e \in used : e <= d

\* The document id counter after cancel_transaction(): the counter only
\* increases, the ids handed out inside the transaction stay used.
AllocatorAfterCancel == lastdocid

cancel_transaction ==
    /\ open
    /\ call' = "cancel_transaction"
    /\ pre' = Snapshot
    /\ arg' = NoArg
    /\ ret' = 0
    /\ IF EndRejected
       THEN /\ err' = InvalidOperationError
            /\ UNCHANGED <<durable, metadata, buffer, txn, txn_start, lastdocid>>
       ELSE /\ txn' = TRANSACTION_NONE
            /\ txn_start' = 0
            /\ buffer' = Cancelled(buffer)
            /\ durable' = durable
            /\ metadata' = metadata
            /\ lastdocid' = AllocatorAfterCancel
            /\ err' \in {Ok, DatabaseError}
    /\ UNCHANGED <<open, writers, reader, shards, postlist, result>>

\* The allocator has run out of document ids.
AllocatorExhausted == lastdocid >= MaxId

\* A slip: the lowest document id not in use is handed out again.
NewIdReusesFree ==
    LET free == {d \in DocIds : View[d] = NoDoc} IN
    IF free = {} THEN lastdocid + 1 ELSE Lowest(free)

\* The newly allocated document id: the counter only increases, so the ids
\* of deleted documents are not reused.
NewId == lastdocid + 1

\* A slip: the counter is set to the id given, even when that is lower.
AllocatorAfterAlways(did) == did

\* The counter after a document has been stored at did: raised to did when
\* did is beyond it, so that the next id allocated is did + 1.
AllocatorAfter(did) == IF did > lastdocid THEN did ELSE lastdocid

add_document(doc) ==
    /\ open
    /\ HasRoom
    /\ call' = "add_document"
    /\ pre' = Snapshot
    /\ arg' = DocArg(doc)
    /\ IF AllocatorExhausted
       THEN \* unable to allocate a document id
            /\ err' = DatabaseError
            /\ ret' = 0
            /\ UNCHANGED <<durable, metadata, buffer, lastdocid>>
       ELSE /\ lastdocid' = NewId
            /\ Buffered(AddRecord(NewId, doc))
            /\ ret' = IF err' = Ok THEN NewId ELSE 0
    /\ UNCHANGED <<txn, txn_start, open, writers, reader, shards, postlist, result>>

delete_document(did) ==
    /\ open
    /\ HasRoom
    /\ call' = "delete_document"
    /\ pre' = Snapshot
    /\ arg' = DidArg(did)
    /\ ret' = 0
    /\ Buffered(DeleteRecord(did))
    /\ UNCHANGED <<txn, txn_start, lastdocid, open, writers, reader, shards, postlist, result>>

replace_document(did, doc) ==
    /\ open
    /\ HasRoom
    /\ call' = "replace_document"
    /\ pre' = Snapshot
    /\ arg' = DidDocArg(did, doc)
    /\ ret' = 0
    /\ lastdocid' = AllocatorAfter(did)
    /\ Buffered(ReplaceRecord(did, doc))
    /\ UNCHANGED <<txn, txn_start, open, writers, reader, shards, postlist, result>>

\* delete_document(term): every document indexed by the term is removed.
delete_document_by_term(term) ==
    LET recs == DeleteRecords(IndexedBy(View, term)) IN
    /\ open
    /\ RoomFor(recs)
    /\ call' = "delete_document_by_term"
    /\ pre' = Snapshot
    /\ arg' = TermArg(term)
    /\ ret' = 0
    /\ BufferedAll(recs)
    /\ UNCHANGED <<txn, txn_start, lastdocid, open, writers, reader, shards, postlist, result>>

\* The id used for the document when documents are indexed by the term: the
\* lowest of them.
ReplacedId(matches) == Lowest(matches)

\* A slip: only the document at the replaced id is touched.
ReplaceTermRecordsOnlyOne(did, matches, doc) == <<ReplaceRecord(did, doc)>>

\* The documents indexed by the term are replaced with the one document: it
\* is stored at did and the other matching documents are removed.
ReplaceTermRecords(did, matches, doc) ==
    <<ReplaceRecord(did, doc)>> \o DeleteRecords(matches \ {did})

\* A slip: with no match nothing is stored.
NoMatchRecordsNothing(did, doc) == <<>>

\* With no document indexed by the term the document is added, as for
\* add_document.
NoMatchRecords(did, doc) == <<AddRecord(did, doc)>>

\* replace_document(term, document).
replace_document_by_term(term, doc) ==
    LET matches == IndexedBy(View, term)
        did == IF matches = {} THEN NewId ELSE ReplacedId(matches)
        recs == IF matches = {} THEN NoMatchRecords(did, doc)
                ELSE ReplaceTermRecords(did, matches, doc)
    IN
    /\ open
    /\ RoomFor(recs)
    /\ call' = "replace_document_by_term"
    /\ pre' = Snapshot
    /\ arg' = TermDocArg(term, doc)
    /\ IF matches = {} /\ AllocatorExhausted
       THEN /\ err' = DatabaseError
            /\ ret' = 0
            /\ UNCHANGED <<durable, metadata, buffer, lastdocid>>
       ELSE /\ lastdocid' = AllocatorAfter(did)
            /\ BufferedAll(recs)
            /\ ret' = IF err' = Ok THEN did ELSE 0
    /\ UNCHANGED <<txn, txn_start, open, writers, reader, shards, postlist, result>>

\* A slip: closing drops the pending modifications.
CloseIdleDiscards ==
    /\ buffer' = <<>>
    /\ durable' = durable
    /\ metadata' = metadata
    /\ err' = Ok

\* Closing with no transaction in progress: flush is called automatically
\* when the database is closed.
CloseIdle == FlushEngine(buffer)

\* A slip: closing commits the transaction in progress.
CloseInTransactionCommits == FlushEngine(buffer)

\* Closing with a transaction in progress: the transaction is aborted as if
\* cancel_transaction had been called.
CloseInTransaction ==
    /\ buffer' = Cancelled(buffer)
    /\ durable' = durable
    /\ metadata' = metadata
    /\ err' = Ok

\* A slip: the metadata value is written at once.
SetMetadataImmediate(key, value) ==
    /\ metadata' = [metadata EXCEPT ![key] = value]
    /\ err' = Ok
    /\ UNCHANGED <<durable, buffer>>

\* Metadata modifications are not committed immediately: a record is pending.
SetMetadataBuffered(key, value) == Buffered(MetadataRecord(key, value))

\* The metadata value of a key is set: the modification is pending like a
\* modification of a document and is committed in the same way.  An empty
\* key is not valid.
set_metadata(key, value) ==
    /\ open
    /\ HasRoom
    /\ call' = "set_metadata"
    /\ pre' = Snapshot
    /\ arg' = KeyValueArg(key, value)
    /\ ret' = 0
    /\ IF key = ""
       THEN /\ err' = InvalidArgumentError
            /\ UNCHANGED <<durable, metadata, buffer>>
       ELSE SetMetadataBuffered(key, value)
    /\ UNCHANGED <<txn, txn_start, lastdocid, open, writers, reader, shards, postlist, result>>

\* The handle is closed (or the last handle destroyed): a transaction in
\* progress is aborted as if cancel_transaction had been called, otherwise
\* the pending modifications are flushed.
close ==
    /\ call' = "close"
    /\ pre' = Snapshot
    /\ arg' = NoArg
    /\ ret' = 0
    /\ IF open
       THEN /\ open' = FALSE
            /\ writers' = writers - 1
            /\ IF transaction_active
               THEN CloseInTransaction
               ELSE CloseIdle
            /\ txn' = TRANSACTION_NONE
            /\ txn_start' = 0
       ELSE /\ err' = Ok
            /\ UNCHANGED <<durable, metadata, buffer, txn, txn_start, open, writers>>
    /\ UNCHANGED <<lastdocid, reader, shards, postlist, result>>

\* A slip: reopen() on a closed handle opens it again.
ReopensAfterClose(name) == name = "reopen after close"

\* close() is permanent: no method called on a closed handle opens it again.
OpenAfterClose(name) == FALSE

\* The calls made on a closed handle.
ClosedCalls == {"reopen after close", "flush after close", "add_document after close"}

\* A method other than close() is called on a closed handle: the file handles
\* have been released, so nothing is read or written; the call often raises
\* DatabaseError, but that is not guaranteed.
closed_call(name) ==
    /\ ~open
    /\ call' = name
    /\ pre' = Snapshot
    /\ arg' = NoArg
    /\ ret' = 0
    /\ err' \in {DatabaseError, Ok}
    /\ open' = OpenAfterClose(name)
    /\ writers' = IF open' THEN writers + 1 ELSE writers
    /\ UNCHANGED <<durable, metadata, buffer, txn, txn_start, lastdocid, reader,
                   shards, postlist, result>>

\* A slip: the write lock is not looked at.
LockHeldNever == FALSE

\* The write lock of the shard is held while a writable handle is open on it.
LockHeld == writers > 0

\* A writable handle is opened on the shard.  The lock is taken without
\* waiting: when it cannot be acquired the open fails with DatabaseLockError.
\* The new handle starts with nothing pending and no transaction; the
\* document id counter belongs to the database.
open_writable ==
    /\ call' = "open_writable"
    /\ pre' = Snapshot
    /\ arg' = NoArg
    /\ ret' = 0
    /\ IF LockHeld
       THEN /\ err' = DatabaseLockError
            /\ UNCHANGED <<buffer, txn, txn_start, open, writers>>
       ELSE /\ err' = Ok
            /\ open' = TRUE
            /\ writers' = writers + 1
            /\ buffer' = <<>>
            /\ txn' = TRANSACTION_NONE
            /\ txn_start' = 0
    /\ UNCHANGED <<durable, metadata, lastdocid, reader, shards, postlist, result>>

\* A slip: the reader sees the writer's pending modifications.
ReopenedSeesPending == ApplyAll(durable, buffer)

\* What a handle sees once re-opened: the latest available version.
Reopened == durable

\* The read-only handle is re-opened to the latest available version.
reopen ==
    /\ call' = "reopen"
    /\ pre' = Snapshot
    /\ arg' = NoArg
    /\ ret' = 0
    /\ err' = Ok
    /\ reader' = Reopened
    /\ UNCHANGED <<durable, metadata, buffer, txn, txn_start, lastdocid, open, writers,
                   shards, postlist, result>>

\* A power failure ends the session and loses the buffer.  It may strike
\* between calls, during a flush (each record performed or not), or during
\* the commit of a transaction (all of the transaction or none of it).
CommittedByPowerFailure == ApplyAll(durable, buffer)

power_failure ==
    /\ open
    /\ call' = "power_failure"
    /\ pre' = Snapshot
    /\ arg' = NoArg
    /\ ret' = 0
    /\ open' = FALSE
    /\ \/ /\ durable' = durable
          /\ metadata' = metadata
       \/ /\ txn = TRANSACTION_FLUSHED
          /\ durable' = CommittedByPowerFailure
          /\ metadata' = ApplyMetadata(metadata, buffer)
       \/ /\ txn = TRANSACTION_NONE
          /\ \E S \in SUBSET (1..Len(buffer)) :
                /\ durable' = ApplyAll(durable, Select(buffer, S, 1))
                /\ metadata' = ApplyMetadata(metadata, Select(buffer, S, 1))
    /\ buffer' = <<>>
    /\ txn' = TRANSACTION_NONE
    /\ txn_start' = 0
    /\ err' = Ok
    /\ writers' = 0
    /\ UNCHANGED <<lastdocid, reader, shards, postlist, result>>

\* ------------------------------------------------------------------ the read path over shards
\* A shard is the sequence of what its local document ids 1..last hold: no
\* document (a deleted one), or a document with its wdf for the term looked
\* up.  A document with wdf 0 has no posting for the term.
Wdfs == {0, 2}
NoEntry == [present |-> FALSE, wdf |-> 0]
Entries == {NoEntry} \cup {[present |-> TRUE, wdf |-> w] : w \in Wdfs}

RECURSIVE SeqsUpTo(_, _)
SeqsUpTo(S, n) ==
    IF n = 0 THEN {<<>>}
    ELSE LET shorter == SeqsUpTo(S, n - 1) IN
         shorter \cup {Append(q, x) : q \in {r \in shorter : Len(r) = n - 1}, x \in S}

Shards == SeqsUpTo(Entries, MaxLocal)
Registries == SeqsUpTo(Shards, MaxShards) \ {<<>>}

DocNotFoundError == "DocNotFoundError"
NoResult == [shard |-> 0, local |-> 0]

\* Global document id g over n shards: the shard (counted from 0) and the
\* local id it denotes, and the global id of a local id of a shard.
ShardOf(g, n) == (g - 1) % n
LocalOf(g, n) == ((g - 1) \div n) + 1

\* A slip: the shard index is taken as counted from 1.
GlobalOfFromOne(shard, local, n) == (local - 1) * n + shard

GlobalOf(shard, local, n) == (local - 1) * n + shard + 1

\* Number of documents of one shard, and of the first n shards together.
ShardDoccount(shard) == Cardinality({l \in 1..Len(shard) : shard[l].present})

RECURSIVE Doccount(_, _)
Doccount(reg, n) ==
    IF n = 0 THEN 0 ELSE Doccount(reg, n - 1) + ShardDoccount(reg[n])

\* Highest document id used: the highest global id of a shard's last id; a
\* shard in which no id is used contributes nothing.
RECURSIVE Lastdocid(_, _)
Lastdocid(reg, n) ==
    IF n = 0 THEN 0
    ELSE LET rest == Lastdocid(reg, n - 1)
             last == Len(reg[n])
             mine == IF last = 0 THEN 0 ELSE GlobalOf(n - 1, last, Len(reg))
         IN  IF mine > rest THEN mine ELSE rest

\* The postings of the term in one shard: the local ids of the documents
\* with a wdf above 0.
HasPosting(shard, l) == l \in 1..Len(shard) /\ shard[l].present /\ shard[l].wdf > 0

\* Collection frequency: the sum of the wdfs, in shard over local ids up to
\* l, and over the first n shards.
RECURSIVE ShardCollectionFreq(_, _)
ShardCollectionFreq(shard, l) ==
    IF l = 0 THEN 0
    ELSE ShardCollectionFreq(shard, l - 1)
         + (IF HasPosting(shard, l) THEN shard[l].wdf ELSE 0)

RECURSIVE CollectionFreq(_, _)
CollectionFreq(reg, n) ==
    IF n = 0 THEN 0
    ELSE CollectionFreq(reg, n - 1) + ShardCollectionFreq(reg[n], Len(reg[n]))

\* The merged posting iterator: per shard the next local id to look at, the
\* entries yielded so far, and whether the end has been reached.
PostlistBegin(reg) ==
    [pos |-> [i \in 1..Len(reg) |-> 1], yielded |-> <<>>, at_end |-> FALSE]

\* The next posting of shard i at or after its position (0: none is left).
NextLocal(i) ==
    LET left == {l \in postlist.pos[i]..Len(shards[i]) : HasPosting(shards[i], l)}
    IN  IF left = {} THEN 0 ELSE Lowest(left)

\* A slip: the shards are read one after the other.
AdvancedFirstShard(ready) == Lowest(ready)

\* The shard advanced: the one whose next posting has the smallest global id.
Advanced(ready) ==
    CHOOSE i \in ready : \A j \in ready :
        GlobalOf(i - 1, NextLocal(i), Len(shards)) <= GlobalOf(j - 1, NextLocal(j), Len(shards))

\* The iterator moves on: it yields the next posting in global document id
\* order, or reaches the end when no shard has a posting left.
postlist_next ==
    /\ ~postlist.at_end
    /\ call' = "postlist_next"
    /\ LET ready == {i \in 1..Len(shards) : NextLocal(i) # 0} IN
       IF ready = {}
       THEN /\ postlist' = [postlist EXCEPT !.at_end = TRUE]
            /\ ret' = 0
       ELSE LET i == Advanced(ready)
                l == NextLocal(i)
                g == GlobalOf(i - 1, l, Len(shards))
            IN  /\ postlist' = [postlist EXCEPT
                                   !.pos[i] = l + 1,
                                   !.yielded = Append(@, [did |-> g, wdf |-> shards[i][l].wdf])]
                /\ ret' = g
    /\ err' = Ok
    /\ arg' = NoArg
    /\ pre' = Snapshot
    /\ UNCHANGED <<durable, metadata, buffer, txn, txn_start, lastdocid, open, writers,
                   reader, shards, result>>

\* The calls that read the shards leave everything but their result alone.
Read(name) ==
    /\ call' = name
    /\ pre' = Snapshot
    /\ UNCHANGED <<durable, metadata, buffer, txn, txn_start, lastdocid, open, writers,
                   reader, shards, postlist>>

get_doccount ==
    /\ Read("get_doccount")
    /\ ret' = Doccount(shards, Len(shards))
    /\ err' = Ok
    /\ arg' = NoArg
    /\ result' = NoResult

get_lastdocid ==
    /\ Read("get_lastdocid")
    /\ ret' = Lastdocid(shards, Len(shards))
    /\ err' = Ok
    /\ arg' = NoArg
    /\ result' = NoResult

get_collection_freq ==
    /\ Read("get_collection_freq")
    /\ ret' = CollectionFreq(shards, Len(shards))
    /\ err' = Ok
    /\ arg' = NoArg
    /\ result' = NoResult

\* The document of a global id is looked up in the shard and at the local id
\* the id denotes.
get_document(did) ==
    /\ Read("get_document")
    /\ arg' = DidArg(did)
    /\ LET shard == ShardOf(did, Len(shards))
           local == LocalOf(did, Len(shards))
       IN  /\ result' = [shard |-> shard, local |-> local]
           /\ err' = IF local <= Len(shards[shard + 1]) /\ shards[shard + 1][local].present
                     THEN Ok ELSE DocNotFoundError
           /\ ret' = IF err' = Ok THEN did ELSE 0

\* ------------------------------------------------------------------ specification
\* The state after construction over an empty shard with document ids 1..n.
InitOver(n) ==
    /\ durable = [d \in 1..n |-> NoDoc]
    /\ metadata = [k \in MetadataKeys |-> ""]
    /\ buffer = <<>>
    /\ txn = TRANSACTION_NONE
    /\ txn_start = 0
    /\ lastdocid = 0
    /\ open = TRUE
    /\ writers = 1
    /\ reader = [d \in 1..n |-> NoDoc]
    /\ shards = <<<<>>>>
    /\ postlist = PostlistBegin(shards)
    /\ result = NoResult
    /\ call = "none"
    /\ err = Ok
    /\ pre = [durable |-> [d \in 1..n |-> NoDoc],
              metadata |-> [k \in MetadataKeys |-> ""], buffer |-> <<>>,
              txn |-> TRANSACTION_NONE, txn_start |-> 0, lastdocid |-> 0,
              open |-> TRUE, writers |-> 1, reader |-> [d \in 1..n |-> NoDoc]]
    /\ arg = NoArg
    /\ ret = 0

Init == InitOver(MaxDocId)

Next ==
    \/ flush
    \/ \E flushed \in BOOLEAN : begin_transaction(flushed)
    \/ commit_transaction
    \/ cancel_transaction
    \/ \E doc \in Documents : add_document(doc)
    \/ \E did \in DocIds : delete_document(did)
    \/ \E did \in DocIds, doc \in Documents : replace_document(did, doc)
    \/ close
    \/ power_failure

Spec == Init /\ [][Next]_vars

\* The document operations with no transaction, over a shard with one more
\* document id.
InitDocs == InitOver(MaxDocId + 1)

\* No flush fails part-way: a call that reports a failure has changed
\* neither the stored documents nor the buffer.
NoPartialFailure ==
    err' = DatabaseError =>
        (durable' = durable /\ metadata' = metadata /\ buffer' = buffer)

NextDocs ==
    \/ flush /\ NoPartialFailure
    \/ \E doc \in Documents : add_document(doc) /\ NoPartialFailure
    \/ \E did \in DocIds : delete_document(did) /\ NoPartialFailure
    \/ \E term \in Terms : delete_document_by_term(term) /\ NoPartialFailure
    \/ \E did \in DocIds, doc \in Documents :
          replace_document(did, doc) /\ NoPartialFailure
    \/ \E term \in Terms, doc \in Documents :
          replace_document_by_term(term, doc) /\ NoPartialFailure

SpecDocs == InitDocs /\ [][NextDocs]_vars

\* Documents added inside and outside transactions that are committed or
\* cancelled, over the same shard.
NextCancel ==
    \/ \E doc \in Documents : add_document(doc) /\ NoPartialFailure
    \/ \E flushed \in BOOLEAN : begin_transaction(flushed) /\ NoPartialFailure
    \/ commit_transaction
    \/ cancel_transaction
    \/ flush /\ NoPartialFailure

SpecCancel == InitDocs /\ [][NextCancel]_vars

\* Metadata set alongside documents added, inside and outside transactions.
NextMetadata ==
    \/ \E key \in MetadataKeys \cup {""}, value \in MetadataValues :
           set_metadata(key, value)
    \/ \E doc \in Documents : add_document(doc)
    \/ flush
    \/ \E flushed \in BOOLEAN : begin_transaction(flushed)
    \/ commit_transaction
    \/ cancel_transaction

SpecMetadata == Init /\ [][NextMetadata]_vars

\* A read-only logical database over any shards within the bounds.
InitShards ==
    /\ shards \in Registries
    /\ postlist = PostlistBegin(shards)
    /\ result = NoResult
    /\ durable = [d \in 1..MaxDocId |-> NoDoc]
    /\ metadata = [k \in MetadataKeys |-> ""]
    /\ buffer = <<>>
    /\ txn = TRANSACTION_NONE
    /\ txn_start = 0
    /\ lastdocid = 0
    /\ open = FALSE
    /\ writers = 0
    /\ reader = durable
    /\ call = "none"
    /\ err = Ok
    /\ pre = Snapshot
    /\ arg = NoArg
    /\ ret = 0

\* The aggregate statistics and the document lookup.
NextShards ==
    \/ get_doccount
    \/ get_lastdocid
    \/ \E did \in 1..(Len(shards) * MaxLocal) : get_document(did)

SpecShards == InitShards /\ [][NextShards]_vars

\* The merged posting iterator and the collection frequency.
NextPostlist ==
    \/ postlist_next
    \/ get_collection_freq

SpecPostlist == InitShards /\ [][NextPostlist]_vars

\* A writer and a read-only handle on the same shard.
NextReader ==
    \/ \E doc \in Documents : add_document(doc)
    \/ \E did \in DocIds : delete_document(did)
    \/ flush
    \/ \E flushed \in BOOLEAN : begin_transaction(flushed)
    \/ commit_transaction
    \/ cancel_transaction
    \/ reopen

SpecReader == Init /\ [][NextReader]_vars

\* Writable handles opened and closed on the shard, with modifications and
\* flushes in between.
NextHandles ==
    \/ open_writable
    \/ close
    \/ \E name \in ClosedCalls : closed_call(name)
    \/ flush
    \/ \E flushed \in BOOLEAN : begin_transaction(flushed)
    \/ \E doc \in Documents : add_document(doc)
    \/ \E did \in DocIds : delete_document(did)

SpecHandles == Init /\ [][NextHandles]_vars

\* ------------------------------------------------------------------ properties
\* The positions of recs whose record is about document id d.
Targets(recs, d) == {i \in 1..Len(recs) : recs[i].did = d}

Last(S) == CHOOSE i \in S : \A j \in S : j <= i

\* The documents a store holds once every record of recs has taken effect:
\* each document id holds what the last record about it left there.
Effect(store, recs) ==
    [d \in DocIds |->
        IF Targets(recs, d) = {} THEN store[d]
        ELSE LET r == recs[Last(Targets(recs, d))]
             IN  IF r.op = "Delete" THEN NoDoc ELSE r.doc]

\* What document id d may hold when any of the records of recs may or may not
\* have been performed, each of them wholly.
WholeOutcomes(store, recs, d) ==
    {store[d]} \cup {IF recs[i].op = "Delete" THEN NoDoc ELSE recs[i].doc :
                        i \in Targets(recs, d)}

\* The records made inside the transaction of snapshot s, and those that were
\* pending when it began.
TxnRecords(s) == SubSeq(s.buffer, s.txn_start + 1, Len(s.buffer))
PendingBefore(s) == SubSeq(s.buffer, 1, s.txn_start)

Empty == [d \in DocIds |-> NoDoc]

\* C1: a flushed transaction is all or nothing in durable storage.  It starts
\* with nothing pending; while it is active the durable documents do not
\* change; whatever ends it (commit, cancel, close, power failure) leaves the
\* durable documents either as they were or with every modification of the
\* transaction in effect; and a commit that reports an error leaves them as
\* they were.
C1_FlushedTransactionAllOrNothing ==
    /\ (call = "begin_transaction" /\ err = Ok /\ txn = TRANSACTION_FLUSHED) =>
           (buffer = <<>> /\ txn_start = 0)
    /\ pre.txn = TRANSACTION_FLUSHED =>
           /\ durable \in {pre.durable, Effect(pre.durable, TxnRecords(pre))}
           /\ txn = TRANSACTION_FLUSHED => durable = pre.durable
           /\ (call = "commit_transaction" /\ err # Ok) =>
                  (durable = pre.durable /\ buffer = <<>>)

\* C1 witness: a commit of a flushed transaction holding two modifications
\* whose effect differs from the durable documents has reported an error.
C1_Witness ==
    /\ call = "commit_transaction"
    /\ pre.txn = TRANSACTION_FLUSHED
    /\ err = DatabaseError
    /\ Len(pre.buffer) = 2
    /\ Effect(pre.durable, pre.buffer) # pre.durable
    /\ Effect(pre.durable, <<pre.buffer[1]>>) # Effect(pre.durable, pre.buffer)
    /\ durable = pre.durable

\* C2: cancelling an unflushed transaction discards every pending record,
\* those buffered before the transaction began included, and changes nothing
\* durable; a close with nothing pending then publishes nothing, so a later
\* open sees none of them.
C2_UnflushedCancelDiscardsPending ==
    /\ (call = "cancel_transaction" /\ pre.txn = TRANSACTION_UNFLUSHED) =>
           (buffer = <<>> /\ durable = pre.durable /\ txn = TRANSACTION_NONE)
    /\ (call = "close" /\ pre.txn = TRANSACTION_NONE /\ pre.buffer = <<>>) =>
           durable = pre.durable

\* C2 witness: an unflushed transaction with a record pending before it (A)
\* and a record made inside it (B) has been cancelled; neither is durable.
C2_Witness ==
    /\ call = "cancel_transaction"
    /\ pre.txn = TRANSACTION_UNFLUSHED
    /\ Len(PendingBefore(pre)) = 1
    /\ Len(TxnRecords(pre)) = 1
    /\ PendingBefore(pre)[1].op = "Add"
    /\ durable = Empty
    /\ buffer = <<>>

\* C3: a flushed transaction stands and falls on its own.  When
\* begin_transaction(true) has started the transaction every modification
\* pending before it is durable and nothing is pending; while the transaction
\* is active the durable documents stay as they are; and cancel discards the
\* transaction's records and leaves the durable documents unchanged.
C3_FlushedTransactionStandsAlone ==
    /\ (call = "begin_transaction" /\ err = Ok /\ txn = TRANSACTION_FLUSHED) =>
           /\ pre.txn = TRANSACTION_NONE
           /\ durable = Effect(pre.durable, pre.buffer)
           /\ buffer = <<>>
    /\ (pre.txn = TRANSACTION_FLUSHED /\ txn = TRANSACTION_FLUSHED) =>
           durable = pre.durable
    /\ (call = "cancel_transaction" /\ pre.txn = TRANSACTION_FLUSHED) =>
           /\ durable = pre.durable
           /\ buffer = <<>>
           /\ txn = TRANSACTION_NONE

\* C3 witness (begin): a flushed transaction has begun with a modification
\* pending, which is now durable.
C3_Witness ==
    /\ call = "begin_transaction"
    /\ err = Ok
    /\ txn = TRANSACTION_FLUSHED
    /\ pre.buffer # <<>>
    /\ durable # pre.durable
    /\ durable = Effect(pre.durable, pre.buffer)

\* C4: when commit_transaction() of a flushed transaction succeeds, every
\* modification made during the transaction is in effect in the durable
\* documents, and nothing else has changed there.
C4_FlushedCommitDurable ==
    (call = "commit_transaction" /\ pre.txn = TRANSACTION_FLUSHED /\ err = Ok) =>
        /\ durable = Effect(pre.durable, TxnRecords(pre))
        /\ buffer = <<>>

\* C4 witness: a flushed transaction with two modifications has been
\* committed successfully and has changed the durable documents.
C4_Witness ==
    /\ call = "commit_transaction"
    /\ pre.txn = TRANSACTION_FLUSHED
    /\ err = Ok
    /\ Len(TxnRecords(pre)) = 2
    /\ durable # pre.durable

\* C5: commit_transaction() and cancel_transaction() called with a
\* transaction active leave the state Idle whatever the outcome; the failure
\* of commit's flush is reported (a commit that did not make the
\* transaction's modifications durable reports an error); and
\* begin_transaction() called in Idle is never rejected as invalid.
C5_CommitCancelAlwaysIdle ==
    /\ (call \in {"commit_transaction", "cancel_transaction"}
            /\ pre.txn # TRANSACTION_NONE) =>
           /\ txn = TRANSACTION_NONE
           /\ err \in {Ok, DatabaseError}
    /\ (call = "commit_transaction" /\ pre.txn = TRANSACTION_FLUSHED
            /\ durable # Effect(pre.durable, TxnRecords(pre))) =>
           err = DatabaseError
    /\ (call = "begin_transaction" /\ pre.txn = TRANSACTION_NONE) =>
           err # InvalidOperationError

\* C5 witness: the commit of a flushed transaction has failed, the failure is
\* reported and the state is Idle.
C5_Witness ==
    /\ call = "commit_transaction"
    /\ pre.txn = TRANSACTION_FLUSHED
    /\ TxnRecords(pre) # <<>>
    /\ err = DatabaseError
    /\ txn = TRANSACTION_NONE

\* C6: begin_transaction() called while a transaction is active fails with
\* InvalidOperationError and changes neither the transaction state and kind,
\* nor the buffer, nor the durable documents.
C6_NestedBeginRejected ==
    (call = "begin_transaction" /\ pre.txn # TRANSACTION_NONE) =>
        /\ err = InvalidOperationError
        /\ txn = pre.txn
        /\ txn_start = pre.txn_start
        /\ buffer = pre.buffer
        /\ durable = pre.durable

\* C6 witness: begin_transaction() has been called inside an unflushed
\* transaction that holds pending records.
C6_Witness ==
    /\ call = "begin_transaction"
    /\ pre.txn = TRANSACTION_UNFLUSHED
    /\ pre.buffer # <<>>
    /\ err = InvalidOperationError
    /\ txn = TRANSACTION_UNFLUSHED

\* C7: commit_transaction() and cancel_transaction() called with no
\* transaction in progress fail with InvalidOperationError; the state stays
\* Idle and the buffer and the durable documents are unchanged.
C7_EndWithoutTransactionRejected ==
    (call \in {"commit_transaction", "cancel_transaction"}
        /\ pre.txn = TRANSACTION_NONE) =>
        /\ err = InvalidOperationError
        /\ txn = TRANSACTION_NONE
        /\ buffer = pre.buffer
        /\ durable = pre.durable

\* C7 witness: cancel_transaction() has been called in Idle with a record
\* pending, which is still pending.
C7_Witness ==
    /\ call = "cancel_transaction"
    /\ pre.txn = TRANSACTION_NONE
    /\ pre.buffer # <<>>
    /\ err = InvalidOperationError
    /\ buffer = pre.buffer

\* C8: flush() called while a transaction is active fails with
\* InvalidOperationError: the transaction stays active, nothing becomes
\* durable and the buffer is unchanged.
C8_FlushInTransactionRejected ==
    (call = "flush" /\ pre.txn # TRANSACTION_NONE) =>
        /\ err = InvalidOperationError
        /\ txn = pre.txn
        /\ txn_start = pre.txn_start
        /\ durable = pre.durable
        /\ buffer = pre.buffer

\* C8 witness: flush() has been called inside a flushed transaction holding
\* a record whose effect is not durable.
C8_Witness ==
    /\ call = "flush"
    /\ pre.txn = TRANSACTION_FLUSHED
    /\ buffer # <<>>
    /\ Effect(durable, buffer) # durable
    /\ err = InvalidOperationError

\* C9: when flush() succeeds, no transaction was active, every modification
\* made before the call is in effect in the durable documents and the buffer
\* is empty.
C9_FlushSuccess ==
    (call = "flush" /\ err = Ok) =>
        /\ pre.txn = TRANSACTION_NONE
        /\ durable = Effect(pre.durable, pre.buffer)
        /\ buffer = <<>>

\* C9 witness: a flush of two pending records, the second of which decides
\* the outcome, has succeeded.
C9_Witness ==
    /\ call = "flush"
    /\ err = Ok
    /\ Len(pre.buffer) = 2
    /\ Effect(pre.durable, pre.buffer) # Effect(pre.durable, <<pre.buffer[1]>>)
    /\ durable # pre.durable

\* C10: no durable document is ever partially written, and after a failed
\* flush (explicit, or the implicit one of begin_transaction(true) or close)
\* every document id holds either what it held before or the whole outcome of
\* one of the batch's records about it.
C10_FailedFlushWholeRecords ==
    /\ \A d \in DocIds : durable[d] \in Documents \cup {NoDoc}
    /\ (call \in {"flush", "begin_transaction", "close"}
            /\ pre.txn = TRANSACTION_NONE /\ err = DatabaseError) =>
           \A d \in DocIds : durable[d] \in WholeOutcomes(pre.durable, pre.buffer, d)

\* C10 witness: a flush of two records has failed with only part of the batch
\* applied: the durable documents are neither as before nor as after.
C10_Witness ==
    /\ call = "flush"
    /\ err = DatabaseError
    /\ Len(pre.buffer) = 2
    /\ durable # pre.durable
    /\ durable # Effect(pre.durable, pre.buffer)

\* ------------------------------------------------------------------ document operations
\* The documents the writer saw before the last call.
PreView == ApplyAll(pre.durable, pre.buffer)

\* The ids of the documents indexed by the term of the last call before it.
Matches == {d \in DocIds : PreView[d].term = arg.term}

Mutations == {"add_document", "delete_document", "delete_document_by_term",
              "replace_document", "replace_document_by_term"}

\* C11: the allocator never decreases, no document in use has an id beyond
\* it, and every id add_document() returns is beyond every id used before:
\* the ids returned are strictly increasing across flushes and deletions and
\* the id of a deleted document is not returned again.
C11_AddedIdsIncrease ==
    /\ lastdocid >= pre.lastdocid
    /\ \A d \in DocIds : (durable[d] # NoDoc \/ View[d] # NoDoc) => d <= lastdocid
    /\ (call = "add_document" /\ err = Ok) =>
           (ret > pre.lastdocid /\ ret = lastdocid)

\* C11 witness: add_document() has returned id 2 after the document with id
\* 1 was deleted and the deletion flushed.
C11_Witness ==
    /\ call = "add_document"
    /\ err = Ok
    /\ pre.lastdocid = 1
    /\ ret = 2
    /\ pre.durable[1] = NoDoc
    /\ PreView[1] = NoDoc

\* C12: replace_document(did, doc) with did beyond the highest id used sets
\* the allocator to did, so that the next add_document() returns did + 1;
\* otherwise it leaves the allocator alone; add_document() returns the
\* allocator's value plus one; and once the highest id there is has been
\* used add_document() fails and changes nothing.
C12_ReplaceAdvancesAllocator ==
    /\ (call = "replace_document" /\ arg.did > pre.lastdocid) => lastdocid = arg.did
    /\ (call = "replace_document" /\ arg.did <= pre.lastdocid) =>
           lastdocid = pre.lastdocid
    /\ (call = "add_document" /\ err = Ok) => ret = pre.lastdocid + 1
    /\ (call = "add_document" /\ pre.lastdocid = MaxId) =>
           /\ err = DatabaseError
           /\ ret = 0
           /\ lastdocid = pre.lastdocid
           /\ buffer = pre.buffer
           /\ durable = pre.durable

\* C12 witness: add_document() has failed to allocate although only the
\* highest document id is in use (a replace at that id has used up the ids).
C12_Witness ==
    /\ call = "add_document"
    /\ pre.lastdocid = MaxId
    /\ err = DatabaseError
    /\ PreView[MaxId] # NoDoc
    /\ \A d \in DocIds \ {MaxId} : PreView[d] = NoDoc /\ durable[d] = NoDoc

\* C13 as claimed: replace_document(term, doc) with documents indexed by the
\* term replaces the one with the lowest id, returns that id, and leaves
\* every other document untouched.
C13_OthersUntouched ==
    (call = "replace_document_by_term" /\ err = Ok /\ Matches # {}) =>
        /\ ret = Lowest(Matches)
        /\ View[ret] = arg.doc
        /\ \A d \in DocIds \ {ret} : View[d] = PreView[d]

\* C13 amended: replace_document(term, doc) with documents indexed by the
\* term stores the document at the lowest of their ids, returns that id,
\* removes the other documents indexed by the term, and leaves the documents
\* not indexed by the term untouched.
C13_LowestReplacedOthersRemoved ==
    (call = "replace_document_by_term" /\ err = Ok /\ Matches # {}) =>
        /\ ret = Lowest(Matches)
        /\ View[ret] = arg.doc
        /\ \A d \in Matches \ {ret} : View[d] = NoDoc
        /\ \A d \in DocIds \ Matches : View[d] = PreView[d]
        /\ lastdocid = pre.lastdocid

\* C13 witness: replace_document(term, doc) has been called with two
\* documents indexed by the term.
C13_Witness ==
    /\ call = "replace_document_by_term"
    /\ err = Ok
    /\ Cardinality(Matches) = 2
    /\ ret = Lowest(Matches)
    /\ View[ret] = arg.doc

\* What add_document(doc) is seen to do from the state before the last call:
\* it returns the allocator's value plus one, advances the allocator to it and
\* the document is there; with no id left it fails and changes nothing.
AddOutcome(doc) ==
    /\ err = Ok =>
           /\ ret = pre.lastdocid + 1
           /\ lastdocid = ret
           /\ View = [PreView EXCEPT ![ret] = doc]
    /\ pre.lastdocid = MaxId =>
           /\ err = DatabaseError
           /\ ret = 0
           /\ lastdocid = pre.lastdocid
           /\ View = PreView

\* C14: replace_document(term, doc) with no document indexed by the term does
\* what add_document(doc) does from the same state.
C14_NoMatchIsAdd ==
    /\ call = "add_document" => AddOutcome(arg.doc)
    /\ (call = "replace_document_by_term" /\ Matches = {}) => AddOutcome(arg.doc)

\* C14 witness: replace_document(term, doc) with no document indexed by the
\* term has returned the new id 2.
C14_Witness ==
    /\ call = "replace_document_by_term"
    /\ Matches = {}
    /\ err = Ok
    /\ pre.lastdocid = 1
    /\ ret = 2
    /\ View[2] = arg.doc

\* The documents after the operation op with arguments a has been applied
\* directly to the documents of store, the allocator being at last.
Immediate(store, last, op, a) ==
    LET M == {d \in DOMAIN store : store[d].term = a.term} IN
    CASE op = "add_document" -> [store EXCEPT ![last + 1] = a.doc]
      [] op = "replace_document" -> [store EXCEPT ![a.did] = a.doc]
      [] op = "delete_document" -> [store EXCEPT ![a.did] = NoDoc]
      [] op = "delete_document_by_term" ->
             [d \in DOMAIN store |-> IF d \in M THEN NoDoc ELSE store[d]]
      [] op = "replace_document_by_term" ->
             IF M = {} THEN [store EXCEPT ![last + 1] = a.doc]
             ELSE [d \in DOMAIN store |->
                      IF d = Lowest(M) THEN a.doc
                      ELSE IF d \in M THEN NoDoc ELSE store[d]]

\* C15: with no transaction active, after every successful modification the
\* documents the writer sees (stored documents plus pending records) are the
\* documents seen before with the operation applied directly, and a
\* successful flush makes exactly those documents durable: buffering the
\* operations and flushing gives what applying them one at a time gives.
C15_BufferedRefinesImmediate ==
    /\ (call \in Mutations /\ pre.txn = TRANSACTION_NONE /\ err = Ok) =>
           View = Immediate(PreView, pre.lastdocid, call, arg)
    /\ (call = "flush" /\ err = Ok) => (durable = PreView /\ buffer = <<>>)

\* C15 witness: a delete by term has removed a document that was only
\* pending, and the automatic flush has made the result durable.
C15_Witness ==
    /\ call = "delete_document_by_term"
    /\ err = Ok
    /\ Len(pre.buffer) = 1
    /\ buffer = <<>>
    /\ PreView # View
    /\ durable = View
    /\ pre.durable # durable

\* ------------------------------------------------------------------ automatic flush
\* C19: with no transaction active, after every modification call that
\* returns without error fewer modifications than the flush threshold are
\* pending: reaching the threshold has flushed them.
C19_PendingBelowThreshold ==
    (call \in Mutations /\ txn = TRANSACTION_NONE /\ err = Ok) =>
        Len(buffer) < FlushThreshold

\* C19 witness: a modification has brought the pending modifications to the
\* threshold and they have been flushed.
C19_Witness ==
    /\ call \in Mutations
    /\ pre.txn = TRANSACTION_NONE
    /\ Len(pre.buffer) = FlushThreshold - 1
    /\ err = Ok
    /\ buffer = <<>>
    /\ durable # pre.durable
    /\ durable = Immediate(PreView, pre.lastdocid, call, arg)

\* C20: closing the open writable database with no transaction active flushes
\* it: when close() returns without error every modification pending before it
\* is in the durable documents, which is what a later open sees.
C20_CloseFlushes ==
    (call = "close" /\ pre.open /\ pre.txn = TRANSACTION_NONE /\ err = Ok) =>
        /\ durable = Effect(pre.durable, pre.buffer)
        /\ buffer = <<>>

\* C20 witness: a close with no transaction active has made a pending
\* modification durable.
C20_Witness ==
    /\ call = "close"
    /\ pre.open
    /\ pre.txn = TRANSACTION_NONE
    /\ pre.buffer # <<>>
    /\ err = Ok
    /\ durable # pre.durable
    /\ durable = Effect(pre.durable, pre.buffer)

C17_SingleWriter ==
    /\ writers <= 1
    /\ open <=> writers = 1
    /\ (call = "open_writable" /\ pre.writers > 0) =>
           /\ err = DatabaseLockError
           /\ writers = pre.writers
           /\ buffer = pre.buffer
           /\ txn = pre.txn
           /\ durable = pre.durable
    /\ (call = "open_writable" /\ pre.writers = 0) =>
           /\ err = Ok
           /\ open
           /\ durable = pre.durable

\* C17 witness: opening for writing has failed with DatabaseLockError while
\* the first writer was open with modifications pending.
C17_Witness ==
    /\ call = "open_writable"
    /\ err = DatabaseLockError
    /\ pre.open
    /\ open
    /\ buffer # <<>>

\* C18: close() on a closed handle has no effect and raises nothing; a
\* handle is closed after every close(); and no call on a closed handle,
\* reopen() included, opens it again or changes the durable documents (only
\* opening a new handle does the former).
C18_ClosePermanent ==
    /\ call = "close" => ~open
    /\ (call = "close" /\ ~pre.open) =>
           /\ err = Ok
           /\ durable = pre.durable
           /\ buffer = pre.buffer
           /\ txn = pre.txn
           /\ writers = pre.writers
           /\ lastdocid = pre.lastdocid
    /\ (~pre.open /\ call # "open_writable") =>
           (~open /\ durable = pre.durable /\ writers = pre.writers)

\* C18 witness: reopen() has been called on a closed handle of a shard
\* holding documents, and has raised nothing.
C18_Witness ==
    /\ call = "reopen after close"
    /\ ~pre.open
    /\ err = Ok
    /\ ~open
    /\ durable # Empty

\* ------------------------------------------------------------------ transactions, continued
\* C21: closing the open handle (destroying the last handle) while a
\* transaction is in progress aborts it as cancel_transaction() does: the
\* durable documents are as before, nothing stays pending (for an unflushed
\* transaction the modifications pending before it are gone as well), and no
\* transaction is in progress.
C21_CloseAbortsTransaction ==
    (call = "close" /\ pre.open /\ pre.txn # TRANSACTION_NONE) =>
        /\ durable = pre.durable
        /\ buffer = <<>>
        /\ txn = TRANSACTION_NONE
        /\ err = Ok
        /\ ~open

\* C21 witness: the handle has been closed inside an unflushed transaction
\* that held a modification, with another one pending from before it.
C21_Witness ==
    /\ call = "close"
    /\ pre.open
    /\ pre.txn = TRANSACTION_UNFLUSHED
    /\ PendingBefore(pre) # <<>>
    /\ TxnRecords(pre) # <<>>
    /\ durable = pre.durable
    /\ buffer = <<>>

\* C24: committing an unflushed transaction flushes nothing: the records of
\* the transaction stay pending together with those pending before it, the
\* durable documents are unchanged and no transaction is in progress; pending
\* records become durable all together at a flush (explicit or at close).
C24_UnflushedCommitNoFlush ==
    /\ (call = "commit_transaction" /\ pre.txn = TRANSACTION_UNFLUSHED) =>
           /\ err = Ok
           /\ txn = TRANSACTION_NONE
           /\ buffer = pre.buffer
           /\ durable = pre.durable
    /\ (call \in {"flush", "close"} /\ pre.open /\ pre.txn = TRANSACTION_NONE
            /\ err = Ok) =>
           (durable = Effect(pre.durable, pre.buffer) /\ buffer = <<>>)

\* C24 witness: an unflushed transaction holding a modification, with
\* another one pending from before it, has been committed: both are still
\* pending and neither is durable.
C24_Witness ==
    /\ call = "commit_transaction"
    /\ pre.txn = TRANSACTION_UNFLUSHED
    /\ PendingBefore(pre) # <<>>
    /\ TxnRecords(pre) # <<>>
    /\ txn = TRANSACTION_NONE
    /\ buffer = pre.buffer
    /\ durable = pre.durable
    /\ Effect(durable, buffer) # durable

C27_ThresholdInTransaction ==
    /\ (pre.txn # TRANSACTION_NONE /\ txn # TRANSACTION_NONE) =>
           durable = pre.durable
    /\ (call = "reopen" /\ txn # TRANSACTION_NONE) => reader = pre.durable
    /\ (call = "cancel_transaction" /\ pre.txn # TRANSACTION_NONE) =>
           (buffer = <<>> /\ durable = pre.durable /\ txn = TRANSACTION_NONE)

\* C27 witness: the reader has re-opened while a transaction held as many
\* modifications as the flush threshold, and sees none of them.
C27_Witness ==
    /\ call = "reopen"
    /\ txn # TRANSACTION_NONE
    /\ Len(TxnRecords(Snapshot)) >= FlushThreshold
    /\ reader = durable
    /\ View # reader

\* ------------------------------------------------------------------ metadata
\* The metadata once every record of recs has taken effect: each key holds
\* the value of the last metadata record about it.
MetadataEffect(meta, recs) ==
    [k \in DOMAIN meta |->
        LET about == {i \in 1..Len(recs) : recs[i].op = "Metadata" /\ recs[i].key = k}
        IN  IF about = {} THEN meta[k] ELSE recs[Last(about)].value]

\* The records the last call has added to the pending ones.
Called ==
    IF call = "set_metadata" /\ arg.term # ""
    THEN <<MetadataRecord(arg.term, arg.doc.data)>>
    ELSE IF call = "add_document" /\ ret # 0 THEN <<AddRecord(ret, arg.doc)>>
    ELSE <<>>

\* C25: metadata is committed as document modifications are.  A
\* set_metadata() that flushes nothing leaves the committed metadata as it
\* was and a record pending; an empty key is rejected; whenever a call that
\* returns without error changes the committed metadata or documents, it has
\* committed all pending modifications of both kinds together; nothing is
\* committed while a transaction stays in progress; and cancel_transaction()
\* discards pending metadata with the pending document modifications.
C25_MetadataCommittedWithDocuments ==
    /\ (call = "set_metadata" /\ arg.term # "" /\ err = Ok /\ buffer # <<>>) =>
           /\ metadata = pre.metadata
           /\ durable = pre.durable
           /\ buffer = pre.buffer \o Called
    /\ (call = "set_metadata" /\ arg.term = "") =>
           /\ err = InvalidArgumentError
           /\ metadata = pre.metadata
           /\ buffer = pre.buffer
    /\ (err = Ok /\ (metadata # pre.metadata \/ durable # pre.durable)) =>
           /\ buffer = <<>>
           /\ metadata = MetadataEffect(pre.metadata, pre.buffer \o Called)
           /\ durable = Effect(pre.durable, pre.buffer \o Called)
    /\ (call \in {"flush", "commit_transaction"} /\ err = Ok /\ buffer = <<>>) =>
           /\ metadata = MetadataEffect(pre.metadata, pre.buffer)
           /\ durable = Effect(pre.durable, pre.buffer)
    /\ (pre.txn # TRANSACTION_NONE /\ txn # TRANSACTION_NONE) =>
           metadata = pre.metadata
    /\ (call = "cancel_transaction" /\ pre.txn # TRANSACTION_NONE) =>
           /\ metadata = pre.metadata
           /\ durable = pre.durable
           /\ buffer = <<>>

\* C25 witness: the commit of a transaction that held a document and a
\* metadata value has made both durable.
C25_Witness ==
    /\ call = "commit_transaction"
    /\ err = Ok
    /\ Len(pre.buffer) = 2
    /\ metadata # pre.metadata
    /\ durable # pre.durable

\* ------------------------------------------------------------------ shards
\* The (shard, local id) pairs of the logical database, shards counted from
\* 0, and those holding a document.
Slots == {sl \in (0..(Len(shards) - 1)) \X (1..MaxLocal) : sl[2] <= Len(shards[sl[1] + 1])}
Held == {sl \in Slots : shards[sl[1] + 1][sl[2]].present}

\* The highest of a non-empty set of integers.
Max(S) == CHOOSE x \in S : \A y \in S : y <= x

\* C22: over N shards global id g denotes local id (g-1) div N + 1 of shard
\* (g-1) mod N, one-to-one between the global ids and the (shard, local id)
\* pairs; get_doccount() is the number of documents of all shards together;
\* get_lastdocid() is the maximum over the shards of
\* (local last id - 1) * N + shard + 1, which is 0 when no shard has used an
\* id.
C22_GlobalIdsAndCounts ==
    LET N == Len(shards)
        Globals == 1..(N * MaxLocal)
        pair(g) == <<(g - 1) % N, ((g - 1) \div N) + 1>>
    IN  /\ call = "get_document" =>
               /\ <<result.shard, result.local>> = pair(arg.did)
               /\ (result.local - 1) * N + result.shard + 1 = arg.did
               /\ err = Ok <=> pair(arg.did) \in Held
        /\ \A g, h \in Globals : pair(g) = pair(h) => g = h
        /\ {pair(g) : g \in Globals} = (0..(N - 1)) \X (1..MaxLocal)
        /\ call = "get_doccount" => ret = Cardinality(Held)
        /\ call = "get_lastdocid" =>
               /\ ret = Max({(Len(shards[i + 1]) - 1) * N + i + 1 : i \in 0..(N - 1)})
               /\ (\A i \in 1..N : shards[i] = <<>>) => ret = 0
               /\ Slots # {} => ret = Max({(sl[2] - 1) * N + sl[1] + 1 : sl \in Slots})

\* C22 witness: get_lastdocid() over two shards, the first with two ids used
\* and the second with one, has returned global id 3.
C22_Witness ==
    /\ call = "get_lastdocid"
    /\ Len(shards) = 2
    /\ Len(shards[1]) = 2
    /\ Len(shards[2]) = 1
    /\ ret = 3

\* The global ids of the postings of the term, and the wdf of each.
Postings == {(sl[2] - 1) * Len(shards) + sl[1] + 1 :
                sl \in {h \in Held : shards[h[1] + 1][h[2]].wdf > 0}}
WdfOf(g) ==
    shards[((g - 1) % Len(shards)) + 1][((g - 1) \div Len(shards)) + 1].wdf

RECURSIVE SumWdf(_)
SumWdf(S) ==
    IF S = {} THEN 0
    ELSE LET g == CHOOSE x \in S : TRUE IN WdfOf(g) + SumWdf(S \ {g})

\* C23: the merged posting iterator yields global ids in strictly increasing
\* order; each entry is a posting of the term with its wdf, never a document
\* with wdf 0; as long as postings are left it has not reached the end, and
\* at the end it has yielded every posting (once, the order being strict);
\* get_collection_freq() is the sum of the wdfs of all shards.
C23_MergedPostlist ==
    LET y == postlist.yielded IN
    /\ \A i, j \in 1..Len(y) : i < j => y[i].did < y[j].did
    /\ \A i \in 1..Len(y) :
           /\ y[i].did \in Postings
           /\ y[i].wdf = WdfOf(y[i].did)
           /\ y[i].wdf > 0
    /\ \A i \in 1..Len(y) : \A g \in Postings : g < y[i].did =>
           \E j \in 1..i : y[j].did = g
    /\ postlist.at_end => {y[i].did : i \in 1..Len(y)} = Postings
    /\ call = "get_collection_freq" => ret = SumWdf(Postings)

\* C23 witness: the iterator has reached the end over two shards after
\* yielding a posting of each, in global id order, and leaving out a document
\* with wdf 0.
C23_Witness ==
    /\ postlist.at_end
    /\ Len(shards) = 2
    /\ Len(postlist.yielded) = 3
    /\ postlist.yielded[1].did = 1
    /\ postlist.yielded[2].did = 2
    /\ postlist.yielded[3].did = 3
    /\ \E sl \in Held : shards[sl[1] + 1][sl[2]].wdf = 0

====
